---- MODULE Spec2Model ----
(***************************************************************************)
(* FoodyZone: the order state machine and its payment reconciliation.     *)
(*                                                                         *)
(* One order is followed from the state createOrder persists through the  *)
(* handlers that write it: updateOrderStatus, cancelOrder, returnOrder    *)
(* (order.controller.js) and initiatePayment, verifyPayment,              *)
(* getPaymentStatus, processRefund, handleStripeWebhook                   *)
(* (payment.controller.js).  The payment gateway is the environment: it   *)
(* holds the order's payment intent and emits the webhook events.         *)
(*                                                                         *)
(* Every handler is one atomic action: it reads the order, works on the   *)
(* in-memory document and either saves it or returns early, in which case *)
(* nothing of the in-memory document is persisted.  PaySpec splits the    *)
(* two handlers that complete a payment into their read and their save,   *)
(* so that requests for the same order overlap.                           *)
(***************************************************************************)
EXTENDS Integers, Sequences, FiniteSets, TLC

(***************************************************************************)
(* Bounds of the model.                                                    *)
(***************************************************************************)
\* an order has 1..MaxItems items
MaxItems == 2
\* a run follows the order for MaxOps saved writes
MaxOps == 2
\* a run follows the carts for MaxCartOps saved writes
MaxCartOps == 3

(***************************************************************************)
(* Program constants.                                                      *)
(***************************************************************************)
\* sellers owning the items of the order; item i belongs to SellerOf(i)
Sellers == {1, 2}
\* priceSummary.finalTotal of the order, frozen at creation
FinalTotal == 2

NoTime == 0
NoItem == 0

itemStatusEnum ==
  {"pending", "confirmed", "processing", "shipped", "delivered", "returned", "cancelled"}

\* paymentInfo.method: upi and netbanking take the same branches as card
\* in every handler (onlineMethods), so card stands for the three of them
PaymentMethods == {"cod", "card"}

onlineMethods == {"card", "upi", "netbanking"}

validStatuses ==
  {"pending", "confirmed", "processing", "shipped", "delivered", "cancelled", "returned"}

\* bodies of status requests: the valid statuses, the alias and a stray word
RequestStatuses == validStatuses \cup {"Under Progress", "dispatched"}

hierarchy == <<"pending", "confirmed", "processing", "shipped", "delivered">>

itemHierarchy == hierarchy

\* Array.prototype.indexOf: 0-based position, -1 when absent
IndexOf(arr, x) ==
  IF \E i \in DOMAIN arr : arr[i] = x
  THEN (CHOOSE i \in DOMAIN arr : arr[i] = x) - 1
  ELSE -1

\* arr[k] of a 0-based JavaScript array
At(arr, k) == arr[k + 1]

\* statusMap[status] || status
normalizedStatus(status) ==
  IF status = "Under Progress" THEN "processing" ELSE status

VARIABLES
  order,     \* the persisted order document: [items, orderStatus, paymentInfo, timeline]
  stripe,    \* the gateway: the order's payment intent and the events it has emitted
  now,       \* the clock: the time of the last write that stamped a date
  carts,     \* the persisted cart document of every user
  coupons,   \* the usage record of every coupon: usageCount and usedBy
  controller, \* which of the two cart controllers serves the cart routes
  sold,      \* how many times the order's items were added to their products' sold
  inflight   \* the order document each payment handler has read and not yet saved

orderVars == <<order, stripe>>

payVars == <<sold, inflight>>

cartVars == <<carts, coupons, controller>>

vars == <<order, stripe, now, carts, coupons, controller, sold, inflight>>

Entry(status, t, notes) == [status |-> status, timestamp |-> t, notes |-> notes]

Reply(code, msg) == [code |-> code, msg |-> msg, next |-> "none"]

\* what a handler leaves behind: the document it saved (or the one it read,
\* when it returned before order.save()), its answer, and whether it read the
\* clock (new Date()) for a field of the model
Saved(o, r) == [order |-> o, response |-> r, saved |-> TRUE, dated |-> TRUE]

\* a save that stamps no date of the model
Stored(o, r) == [order |-> o, response |-> r, saved |-> TRUE, dated |-> FALSE]

Rejected(o, r) == [order |-> o, response |-> r, saved |-> FALSE, dated |-> FALSE]

SellerOf(i) == IF i % 2 = 1 THEN 1 ELSE 2

\* the order item createOrder builds from cart line i
NewItem(i) ==
  [sellerId |-> SellerOf(i), itemStatus |-> "pending", statusHistory |-> <<>>,
   deliveredAt |-> NoTime, cancelledAt |-> NoTime]

EmptyTimeline ==
  [orderCreated |-> NoTime, paymentCompleted |-> NoTime, orderConfirmed |-> NoTime,
   processingStarted |-> NoTime, orderShipped |-> NoTime, orderDelivered |-> NoTime,
   orderCancelled |-> NoTime, orderReturned |-> NoTime]

\* the order document createOrder persists at time t for a cart of n lines
createOrder(n, paymentMethod, t) ==
  [items |-> [i \in 1..n |-> NewItem(i)],
   orderStatus |->
     [current |-> "pending",
      history |-> <<Entry("pending", t, "Order created successfully")>>],
   paymentInfo |->
     [method |-> paymentMethod, status |-> "pending",
      stripePaymentIntentId |-> FALSE, refundAmount |-> 0],
   timeline |-> [EmptyTimeline EXCEPT !.orderCreated = t],
   finalTotal |-> FinalTotal]

(***************************************************************************)
(* updateOrderStatus (admin / seller): PATCH /order/:orderId/status        *)
(***************************************************************************)
\* who sends the request: req.user.role and req.user._id
Callers ==
  {[role |-> "admin", userId |-> 0], [role |-> "user", userId |-> 0]}
    \cup {[role |-> "seller", userId |-> s] : s \in Sellers}

\* order.items.every(i => delivered | returned | cancelled)
allItemsFinalized(its) ==
  \A i \in DOMAIN its : its[i].itemStatus \in {"delivered", "returned", "cancelled"}

\* the cancellation/return branch of the item loop
cancelOrReturnItem(item, status, t) ==
  [item EXCEPT
     !.itemStatus = status,
     !.statusHistory = Append(@, Entry(status, t, "Item <status>")),
     !.cancelledAt = IF status = "cancelled" THEN t ELSE @]

\* the forward branch of the item loop
advanceItem(item, status, t) ==
  [item EXCEPT
     !.itemStatus = status,
     !.statusHistory = Append(@, Entry(status, t, "Item status updated to <status>")),
     !.deliveredAt = IF status = "delivered" THEN t ELSE @]

\* the items the request addresses: the itemId filter and the seller/role filter
addressed(item, k, itemId, caller) ==
  /\ ~(itemId # NoItem /\ k # itemId)
  /\ ~(caller.role = "seller" /\ item.sellerId # caller.userId)
  /\ ~(caller.role # "admin" /\ caller.role # "seller")

\* the loop body without "Prevent skipping steps"
itemStep_AllowsSkips(item, status, t) ==
  LET oldItemIndex == IndexOf(itemHierarchy, item.itemStatus)
      newItemIndex == IndexOf(itemHierarchy, status)
      skip == [does |-> "continue", updated |-> FALSE, item |-> item, next |-> "none"]
  IN
  IF item.itemStatus = "cancelled" \/ item.itemStatus = "returned" THEN skip
  ELSE IF status \in {"cancelled", "returned"} THEN
    [skip EXCEPT !.updated = TRUE, !.item = cancelOrReturnItem(item, status, t)]
  ELSE IF newItemIndex = -1 \/ oldItemIndex = -1 THEN skip
  ELSE IF newItemIndex < oldItemIndex THEN skip
  ELSE
    [skip EXCEPT !.updated = TRUE, !.item = advanceItem(item, status, t)]

\* the loop body without "Prevent backward movement"
itemStep_AllowsBackward(item, status, t) ==
  LET oldItemIndex == IndexOf(itemHierarchy, item.itemStatus)
      newItemIndex == IndexOf(itemHierarchy, status)
      skip == [does |-> "continue", updated |-> FALSE, item |-> item, next |-> "none"]
  IN
  IF item.itemStatus = "cancelled" \/ item.itemStatus = "returned" THEN skip
  ELSE IF status \in {"cancelled", "returned"} THEN
    [skip EXCEPT !.updated = TRUE, !.item = cancelOrReturnItem(item, status, t)]
  ELSE IF newItemIndex = -1 \/ oldItemIndex = -1 THEN skip
  ELSE IF newItemIndex > oldItemIndex + 1 THEN
    [skip EXCEPT !.does = "return", !.next = At(itemHierarchy, oldItemIndex + 1)]
  ELSE
    [skip EXCEPT !.updated = TRUE, !.item = advanceItem(item, status, t)]

\* the body of the item loop for an addressed item: what it does next
\* (continue, or return a response) and the item it leaves in memory
itemStep(item, status, t) ==
  LET oldItemIndex == IndexOf(itemHierarchy, item.itemStatus)
      newItemIndex == IndexOf(itemHierarchy, status)
      skip == [does |-> "continue", updated |-> FALSE, item |-> item, next |-> "none"]
  IN
  IF item.itemStatus = "cancelled" \/ item.itemStatus = "returned" THEN skip
  ELSE IF status \in {"cancelled", "returned"} THEN
    [skip EXCEPT !.updated = TRUE, !.item = cancelOrReturnItem(item, status, t)]
  ELSE IF newItemIndex = -1 \/ oldItemIndex = -1 THEN skip
  ELSE IF newItemIndex < oldItemIndex THEN skip
  ELSE IF newItemIndex > oldItemIndex + 1 THEN
    [skip EXCEPT !.does = "return", !.next = At(itemHierarchy, oldItemIndex + 1)]
  ELSE
    [skip EXCEPT !.updated = TRUE, !.item = advanceItem(item, status, t)]

\* for (const item of order.items) { ... }: acc is the in-memory item list,
\* the update counter and, once the loop has returned a response, the step it names
RECURSIVE forItems(_, _, _, _, _, _)
forItems(acc, k, status, itemId, caller, t) ==
  IF k > Len(acc.items) THEN acc
  ELSE
    LET step == itemStep(acc.items[k], status, t) IN
    IF ~addressed(acc.items[k], k, itemId, caller)
    THEN forItems(acc, k + 1, status, itemId, caller, t)
    ELSE IF step.does = "return"
    THEN [acc EXCEPT !.returned = TRUE, !.next = step.next]
    ELSE forItems([acc EXCEPT !.items[k] = step.item,
                              !.updatedCount = IF step.updated THEN @ + 1 ELSE @],
                  k + 1, status, itemId, caller, t)

\* "Auto-confirm pending items when payment is completed"
autoConfirm(its, t) ==
  [i \in DOMAIN its |->
     IF its[i].itemStatus = "pending"
     THEN [its[i] EXCEPT
             !.itemStatus = "confirmed",
             !.statusHistory = Append(@, Entry("confirmed", t, "Auto-confirmed after payment"))]
     ELSE its[i]]

\* order.items.filter(i => !["cancelled", "returned"].includes(i.itemStatus)),
\* as the set of positions
activeItems(its) ==
  {i \in DOMAIN its : its[i].itemStatus \notin {"cancelled", "returned"}}

\* the least hierarchy index over the active items, starting from the last index
RECURSIVE minStatusIndex(_, _, _)
minStatusIndex(its, k, min) ==
  IF k > Len(its) THEN min
  ELSE
    LET idx == IndexOf(hierarchy, its[k].itemStatus) IN
    IF k \in activeItems(its) /\ idx # -1 /\ idx < min
    THEN minStatusIndex(its, k + 1, idx)
    ELSE minStatusIndex(its, k + 1, min)

\* the determined status without the floor at 'shipped'
determinedStatus_NoShippedFloor(its) ==
  LET act == activeItems(its)
      min == minStatusIndex(its, 1, Len(hierarchy) - 1)
      hasDelivered == \E i \in act : its[i].itemStatus = "delivered"
      hasShipped == \E i \in act : its[i].itemStatus = "shipped"
      hasProcessing == \E i \in act : its[i].itemStatus = "processing"
      s0 == At(hierarchy, min)
      s1 == IF min < 2 /\ (hasProcessing \/ hasShipped \/ hasDelivered)
            THEN "processing" ELSE s0
  IN IF \A i \in act : its[i].itemStatus = "delivered" THEN "delivered" ELSE s1

\* the status the active items determine, before the "Don't go backward" guard
determinedStatus(its) ==
  LET act == activeItems(its)
      min == minStatusIndex(its, 1, Len(hierarchy) - 1)
      hasDelivered == \E i \in act : its[i].itemStatus = "delivered"
      hasShipped == \E i \in act : its[i].itemStatus = "shipped"
      hasProcessing == \E i \in act : its[i].itemStatus = "processing"
      s0 == At(hierarchy, min)
      s1 == IF min < 2 /\ (hasProcessing \/ hasShipped \/ hasDelivered)
            THEN "processing" ELSE s0
      s2 == IF min < 3 /\ (hasShipped \/ hasDelivered) THEN "shipped" ELSE s1
  IN IF \A i \in act : its[i].itemStatus = "delivered" THEN "delivered" ELSE s2

\* the guard left out: the determined status always wins
dontGoBackward_NoGuard(current, determined) == determined

\* "Don't go backward": keep the old status when the determined one is behind it
dontGoBackward(current, determined) ==
  LET oldIdx == IndexOf(hierarchy, current)
      newIdx == IndexOf(hierarchy, determined)
  IN IF oldIdx # -1 /\ newIdx # -1 /\ newIdx < oldIdx THEN current ELSE determined

\* the derivation without the branch for an order with no active item
globalOrderStatus_NoEmptyCase(its, current) ==
  dontGoBackward(current, determinedStatus(its))

\* "Determine global order status based on all items"
globalOrderStatus(its, current) ==
  IF activeItems(its) = {}
  THEN IF \A i \in DOMAIN its : its[i].itemStatus = "cancelled"
       THEN "cancelled" ELSE "returned"
  ELSE dontGoBackward(current, determinedStatus(its))

\* "Push to global history if status changed"
pushGlobalHistory(history, current, t) ==
  IF Len(history) = 0 \/ history[Len(history)].status # current
  THEN Append(history, Entry(current, t, "Status updated"))
  ELSE history

\* "Update global timeline": a field is stamped only while it is unset
stampTimeline(tl, globalStatus, t) ==
  [tl EXCEPT
     !.orderConfirmed = IF globalStatus = "confirmed" /\ @ = NoTime THEN t ELSE @,
     !.processingStarted = IF globalStatus = "processing" /\ @ = NoTime THEN t ELSE @,
     !.orderShipped = IF globalStatus = "shipped" /\ @ = NoTime THEN t ELSE @,
     !.orderDelivered = IF globalStatus = "delivered" /\ @ = NoTime THEN t ELSE @]

\* cash on delivery is paid when the order is delivered
codCompletion(pay, globalStatus) ==
  IF globalStatus = "delivered" /\ pay.method = "cod" /\ pay.status # "refunded"
  THEN [pay EXCEPT !.status = "completed"]
  ELSE pay

\* the in-memory items after the item loop
loopResult(o, status, itemId, caller, t) ==
  forItems([items |-> o.items, updatedCount |-> 0, returned |-> FALSE, next |-> "none"],
           1, status, itemId, caller, t)

\* the items as saved: the loop's items, auto-confirmed when the payment is completed
itemsToSave(o, loopItems, t) ==
  IF o.paymentInfo.status = "completed" THEN autoConfirm(loopItems, t) ELSE loopItems

updateOrderStatus(o, status, itemId, caller, t) ==
  LET target == normalizedStatus(status)
      loop == loopResult(o, target, itemId, caller, t)
      newItems == itemsToSave(o, loop.items, t)
      current == globalOrderStatus(newItems, o.orderStatus.current)
  IN
  IF target \notin validStatuses THEN
    Rejected(o, Reply(400, "Invalid status"))
  ELSE IF allItemsFinalized(o.items) /\ target # "returned" THEN
    Rejected(o, Reply(400, "Order is fully delivered/completed"))
  ELSE IF loop.returned THEN
    Rejected(o, [code |-> 400, msg |-> "Cannot update item directly", next |-> loop.next])
  ELSE IF loop.updatedCount = 0 THEN
    Rejected(o, Reply(400, "No valid items found to update or permission denied"))
  ELSE
    Saved([o EXCEPT
             !.items = newItems,
             !.orderStatus = [current |-> current,
                              history |-> pushGlobalHistory(@.history, current, t)],
             !.timeline = stampTimeline(@, current, t),
             !.paymentInfo = codCompletion(@, current)],
          Reply(200, "Order status updated successfully"))

(***************************************************************************)
(* cancelOrder and returnOrder (the ordering user)                         *)
(***************************************************************************)
cancelOrder(o, t) ==
  IF o.orderStatus.current \notin {"pending", "confirmed"} THEN
    Rejected(o, Reply(400, "Cannot cancel order with status"))
  ELSE
    Saved([o EXCEPT
             !.orderStatus.current = "cancelled",
             !.orderStatus.history = Append(@, Entry("cancelled", t, "Cancelled by user"))],
          Reply(200, "Order cancelled successfully"))

returnOrder(o, reason, t) ==
  IF ~reason THEN
    Rejected(o, Reply(400, "Return reason required"))
  ELSE IF o.orderStatus.current # "delivered" THEN
    Rejected(o, Reply(400, "Only delivered orders can be returned"))
  ELSE
    Saved([o EXCEPT
             !.orderStatus.current = "returned",
             !.orderStatus.history = Append(@, Entry("returned", t, "<reason>")),
             !.paymentInfo.status = "refunded",
             !.paymentInfo.refundAmount = o.finalTotal],
          Reply(200, "Return initiated successfully"))

(***************************************************************************)
(* The payment handlers.  intent is the status the gateway reports for    *)
(* the order's payment intent ("none" when the order has none).           *)
(***************************************************************************)
IntentStatuses == {"none", "requires_payment_method", "requires_action", "succeeded"}

\* the intent is new: created, not yet confirmed
NewIntent == "requires_payment_method"

initiatePayment(o, intent) ==
  IF o.paymentInfo.status = "completed" THEN
    Rejected(o, Reply(400, "Payment already completed for this order"))
  ELSE IF o.paymentInfo.method \notin onlineMethods THEN
    Rejected(o, Reply(400, "This order is not configured for online payment"))
  ELSE IF o.paymentInfo.stripePaymentIntentId
          /\ intent \in {"requires_payment_method", "requires_confirmation", "requires_action"} THEN
    Rejected(o, Reply(200, "Payment intent already exists"))
  ELSE
    Stored([o EXCEPT !.paymentInfo.stripePaymentIntentId = TRUE],
           Reply(200, "Payment initiated successfully"))

\* the branch both verifyPayment and the succeeded webhook take once the
\* gateway reports the payment as succeeded
completePayment(o, t, notes) ==
  LET paid == [o EXCEPT !.paymentInfo.status = "completed",
                        !.timeline.paymentCompleted = t]
  IN IF o.orderStatus.current = "pending"
     THEN [paid EXCEPT
             !.orderStatus.current = "confirmed",
             !.items = [i \in DOMAIN @ |->
                          IF @[i].itemStatus = "pending"
                          THEN [@[i] EXCEPT !.itemStatus = "confirmed"]
                          ELSE @[i]],
             !.orderStatus.history = Append(@, Entry("confirmed", t, notes)),
             !.timeline.orderConfirmed = t]
     ELSE paid

\* confirmed is what confirmPaymentIntent returns when verifyPayment has to
\* confirm the intent itself: a status, or "throw"
intentAfterConfirm(intent, confirmed) ==
  IF intent \in {"requires_payment_method", "requires_confirmation"}
  THEN confirmed ELSE intent

verifyPayment(o, intent, confirmed, t) ==
  LET paymentIntent == intentAfterConfirm(intent, confirmed) IN
  IF o.paymentInfo.status = "completed" THEN
    Rejected(o, Reply(200, "Payment already verified"))
  ELSE IF ~o.paymentInfo.stripePaymentIntentId THEN
    Rejected(o, Reply(400, "No payment intent found"))
  ELSE IF paymentIntent = "throw" THEN
    Rejected(o, Reply(400, "Payment confirmation failed"))
  ELSE IF paymentIntent # "succeeded" THEN
    Rejected(o, Reply(400, "Payment not completed"))
  ELSE
    Saved(completePayment(o, t, "Order confirmed. Payment via <method> (Stripe)"),
          Reply(200, "Payment verified and order confirmed"))

getPaymentStatus(o, intent) ==
  IF o.paymentInfo.status = "pending" /\ o.paymentInfo.stripePaymentIntentId
     /\ intent = "succeeded"
  THEN Saved([o EXCEPT !.paymentInfo.status = "completed"], Reply(200, "Payment status"))
  ELSE Rejected(o, Reply(200, "Payment status"))

\* processRefund without the case of the returned order
processRefund_AlwaysCancels(o, amount, refunded, t) ==
  LET refundAmount == IF amount # 0 THEN amount ELSE o.finalTotal IN
  IF o.paymentInfo.method \notin onlineMethods THEN
    Rejected(o, Reply(400, "COD orders cannot be refunded via Stripe"))
  ELSE IF o.paymentInfo.status # "completed" THEN
    Rejected(o, Reply(400, "Cannot refund - payment is not completed"))
  ELSE IF ~o.paymentInfo.stripePaymentIntentId THEN
    Rejected(o, Reply(400, "No Stripe payment intent found for this order"))
  ELSE IF refundAmount <= 0 THEN
    Rejected(o, Reply(400, "Refund amount must be greater than zero"))
  ELSE IF refundAmount > o.finalTotal THEN
    Rejected(o, Reply(400, "Refund amount cannot exceed order total"))
  ELSE IF ~refunded THEN
    Rejected(o, Reply(500, "Stripe Refund Failed"))
  ELSE
    LET paid == [o EXCEPT !.paymentInfo.status = "refunded",
                          !.paymentInfo.refundAmount = refundAmount]
    IN Saved(IF TRUE
             THEN [paid EXCEPT
                     !.orderStatus.current = "cancelled",
                     !.orderStatus.history =
                        Append(@, Entry("cancelled", t, "Refund processed: Order Cancelled"))]
             ELSE [paid EXCEPT
                     !.orderStatus.history =
                        Append(@, Entry("refunded", t, "Refund processed for returned item"))],
             Reply(200, "Refund processed successfully"))

\* amount is req.body.amount, 0 when the body carries none; refunded is
\* whether createStripeRefund returns (it throws otherwise)
processRefund(o, amount, refunded, t) ==
  LET refundAmount == IF amount # 0 THEN amount ELSE o.finalTotal IN
  IF o.paymentInfo.method \notin onlineMethods THEN
    Rejected(o, Reply(400, "COD orders cannot be refunded via Stripe"))
  ELSE IF o.paymentInfo.status # "completed" THEN
    Rejected(o, Reply(400, "Cannot refund - payment is not completed"))
  ELSE IF ~o.paymentInfo.stripePaymentIntentId THEN
    Rejected(o, Reply(400, "No Stripe payment intent found for this order"))
  ELSE IF refundAmount <= 0 THEN
    Rejected(o, Reply(400, "Refund amount must be greater than zero"))
  ELSE IF refundAmount > o.finalTotal THEN
    Rejected(o, Reply(400, "Refund amount cannot exceed order total"))
  ELSE IF ~refunded THEN
    Rejected(o, Reply(500, "Stripe Refund Failed"))
  ELSE
    LET paid == [o EXCEPT !.paymentInfo.status = "refunded",
                          !.paymentInfo.refundAmount = refundAmount]
    IN Saved(IF o.orderStatus.current # "returned"
             THEN [paid EXCEPT
                     !.orderStatus.current = "cancelled",
                     !.orderStatus.history =
                        Append(@, Entry("cancelled", t, "Refund processed: Order Cancelled"))]
             ELSE [paid EXCEPT
                     !.orderStatus.history =
                        Append(@, Entry("refunded", t, "Refund processed for returned item"))],
             Reply(200, "Refund processed successfully"))

WebhookEvents == {"payment_intent.succeeded", "payment_intent.payment_failed"}

handleStripeWebhook(o, type, t) ==
  IF type = "payment_intent.succeeded" /\ o.paymentInfo.status # "completed" THEN
    Saved(completePayment(o, t, "Payment verified via Stripe Webhook"),
          Reply(200, "received"))
  ELSE IF type = "payment_intent.payment_failed" THEN
    Stored([o EXCEPT !.paymentInfo.status = "failed"], Reply(200, "received"))
  ELSE
    Rejected(o, Reply(200, "received"))

\* the loop both verifyPayment and the succeeded webhook run after
\* order.save(): every product of the order gets $inc sold by the item's
\* quantity; counted is how many times the order was counted so far
soldAfter(counted, completed) == IF completed THEN counted + 1 ELSE counted

\* the payment handlers that read the order and save it later
PaymentHandlers == {"verifyPayment", "handleStripeWebhook"}

\* no handler is between its read and its save
NoReads == [h \in PaymentHandlers |-> <<>>]

(***************************************************************************)
(* The cart: data shared by the two cart controllers.                      *)
(*                                                                         *)
(* The repository carries two cart controllers with the same routes: the   *)
(* food-delivery one (controllers/cart.controller.js) and the grocery one  *)
(* with combo offers, tax and delivery charge.  Definitions of the grocery *)
(* controller carry the suffix G.                                          *)
(***************************************************************************)
Users == {1, 2}

\* the user whose cart the run follows through every cart route; the other
\* users only apply and remove coupons on a cart they have filled before
Shopper == 1

\* null / undefined of a numeric field
Null == -1

\* a || b on numbers: null, undefined and 0 are falsy
Or(a, b) == IF a = Null \/ a = 0 THEN b ELSE a

\* ToNumber in an arithmetic expression: null is 0
Num(a) == IF a = Null THEN 0 ELSE a

\* Math.round(a / b) for b > 0: to the nearest integer, halves upward
RoundDiv(a, b) == (2 * a + b) \div (2 * b)

Max(a, b) == IF a >= b THEN a ELSE b

\* the Product collection: price, discount (a percentage, not validated on
\* input), docType, and the stock (stock, or totalQuantity.value)
Products ==
  <<[price |-> 100, discount |-> Null, docType |-> "delivery", stock |-> 3, inStock |-> TRUE],
    [price |-> 50, discount |-> 10, docType |-> "grocery", stock |-> 3, inStock |-> TRUE],
    [price |-> 20, discount |-> -10, docType |-> "grocery", stock |-> 3, inStock |-> TRUE]>>

ProductIds == DOMAIN Products

\* the Coupon collection: the terms of each coupon; 0 stands for a field
\* that is not set
Coupons == {1, 2}

CouponTerms ==
  <<[isActive |-> TRUE, inPeriod |-> TRUE, discountType |-> "flat", flatValue |-> 60,
     percentageValue |-> 0, maxDiscountAmount |-> 0, minOrderValue |-> 100,
     perUserLimit |-> 2, maxUsageLimit |-> 3],
    [isActive |-> TRUE, inPeriod |-> TRUE, discountType |-> "percentage", flatValue |-> 0,
     percentageValue |-> 10, maxDiscountAmount |-> 15, minOrderValue |-> 0,
     perUserLimit |-> 0, maxUsageLimit |-> 0]>>

\* usageCount and usedBy of a coupon nobody has applied
UnusedCoupon == [usageCount |-> 0, usedBy |-> <<>>]

NoCoupon == 0

NoCombo == 0

\* cart.appliedCoupon of a cart without a coupon: no couponId
NoAppliedCoupon == [couponId |-> NoCoupon, discountApplied |-> 0]

\* Cart.create({ userId, items: [] }): the schema defaults
EmptyCart ==
  [items |-> <<>>, appliedCoupon |-> NoAppliedCoupon, appliedCombos |-> <<>>,
   totalItems |-> 0, totalPrice |-> 0, totalDiscountedPrice |-> 0, totalSavings |-> 0,
   restaurantCharges |-> 0, comboDiscount |-> 0, couponDiscount |-> 0,
   deliveryCharge |-> 0, gst |-> 0, subtotal |-> 0, finalTotal |-> 0]

\* what a cart handler leaves behind: the cart it saved, or the cart it read
\* when it answered before cart.save()
CartSaved(cart, code, msg) == [cart |-> cart, code |-> code, msg |-> msg, saved |-> TRUE]

CartRejected(cart, code, msg) == [cart |-> cart, code |-> code, msg |-> msg, saved |-> FALSE]

\* reduce((sum, x) => sum + x, 0)
RECURSIVE Sum(_)
Sum(seq) == IF seq = <<>> THEN 0 ELSE Head(seq) + Sum(Tail(seq))

\* findIndex over the positions that satisfy the predicate: the 1-based
\* position of the first match, 0 for -1
findIndex(matches) ==
  IF matches = {} THEN 0 ELSE CHOOSE k \in matches : \A j \in matches : k <= j

\* items.splice(k, 1)
splice(items, k) == SubSeq(items, 1, k - 1) \o SubSeq(items, k + 1, Len(items))

\* cartItemSchema: quantity has min 1, so cart.save() throws otherwise
validates(items) == \A k \in DOMAIN items : items[k].quantity >= 1

\* Math.round(price * (1 - product.discount / 100)), null without a discount
discountedPriceOf(product) ==
  IF Or(product.discount, 0) # 0
  THEN RoundDiv(product.price * (100 - product.discount), 100)
  ELSE Null

(***************************************************************************)
(* controllers/cart.controller.js: the food-delivery cart                  *)
(***************************************************************************)
\* recalculateCart(cart); populated tells whether items.product was
\* populated by the query, which is what makes product.docType readable
recalculateCart(cart, populated) ==
  LET items == cart.items
      totalItems == Sum([k \in DOMAIN items |-> items[k].quantity])
      totalOriginal == Sum([k \in DOMAIN items |-> items[k].price * items[k].quantity])
      totalDiscounted ==
        Sum([k \in DOMAIN items |->
               Or(items[k].discountedPrice, items[k].price) * items[k].quantity])
      restaurantCharges ==
        Sum([k \in DOMAIN items |->
               IF populated /\ Products[items[k].product].docType = "delivery"
               THEN 10 * items[k].quantity ELSE 0])
      couponDiscount == Or(cart.appliedCoupon.discountApplied, 0)
      afterDiscounts == totalDiscounted - couponDiscount
      subtotal == afterDiscounts + restaurantCharges
  IN
  IF Len(items) = 0 THEN
    [cart EXCEPT
       !.totalItems = 0, !.totalPrice = 0, !.totalDiscountedPrice = 0,
       !.totalSavings = 0, !.restaurantCharges = 0, !.couponDiscount = 0,
       !.subtotal = 0, !.finalTotal = 0, !.appliedCoupon = NoAppliedCoupon]
  ELSE
    [cart EXCEPT
       !.totalItems = totalItems, !.totalPrice = totalOriginal,
       !.totalDiscountedPrice = totalDiscounted,
       !.totalSavings = totalOriginal - totalDiscounted,
       !.restaurantCharges = restaurantCharges, !.couponDiscount = couponDiscount,
       !.subtotal = subtotal, !.finalTotal = subtotal]

\* the local recalculateCart of the order controller, line for line the
\* function above; createOrder runs it on the populated cart and saves
recalculateCartAtCheckout(cart) == recalculateCart(cart, TRUE)

\* the line addToCart pushes for a product that is not in the cart yet
newLine(productId, quantity) ==
  LET product == Products[productId]
      price == Or(product.price, 0)
      discountedPrice == discountedPriceOf(product)
      finalUnitPrice == IF discountedPrice # Null THEN discountedPrice ELSE price
  IN [product |-> productId, comboOffer |-> NoCombo, price |-> price,
      discountedPrice |-> discountedPrice, quantity |-> quantity,
      totalPrice |-> price * quantity,
      totalDiscountedPrice |-> finalUnitPrice * quantity,
      stock |-> product.stock]

\* the existing line with its quantity changed by addToCart
mergedLine(line, newQty) ==
  [line EXCEPT
     !.quantity = newQty,
     !.totalPrice = line.price * newQty,
     !.totalDiscountedPrice = Or(line.discountedPrice, line.price) * newQty]

addToCart(cart, productId, quantity) ==
  LET product == Products[productId]
      stock == Or(product.stock, 0)
      existingIndex == findIndex({k \in DOMAIN cart.items : cart.items[k].product = productId})
      newQty == cart.items[existingIndex].quantity + quantity
      items ==
        IF existingIndex >= 1
        THEN IF newQty <= 0 THEN splice(cart.items, existingIndex)
             ELSE [cart.items EXCEPT ![existingIndex] = mergedLine(@, newQty)]
        ELSE Append(cart.items, newLine(productId, quantity))
  IN
  IF ~product.inStock \/ stock <= 0 THEN
    CartRejected(cart, 400, "Product is out of stock")
  ELSE IF stock < quantity THEN
    CartRejected(cart, 400, "Insufficient stock")
  ELSE IF existingIndex >= 1 /\ newQty > 0 /\ stock # 0 /\ newQty > stock THEN
    CartRejected(cart, 400, "Max available")
  ELSE IF ~validates(items) THEN
    CartRejected(cart, 500, "Validation failed")
  ELSE
    CartSaved(recalculateCart([cart EXCEPT !.items = items], FALSE), 200, "Cart updated")

getCart(cart) ==
  CartSaved(recalculateCart(cart, TRUE), 200, "Cart fetched")

updateCartItem(cart, cartItemId, quantity) ==
  LET item == cart.items[cartItemId] IN
  IF quantity = 0 \/ quantity < 1 THEN
    CartRejected(cart, 400, "Quantity must be at least 1")
  ELSE IF cartItemId \notin DOMAIN cart.items THEN
    CartRejected(cart, 404, "Item not in cart")
  ELSE IF quantity > item.stock THEN
    CartRejected(cart, 400, "Insufficient stock")
  ELSE
    CartSaved(recalculateCart([cart EXCEPT !.items[cartItemId] = mergedLine(@, quantity)],
                              FALSE),
              200, "Cart item updated")

removeFromCart(cart, cartItemId) ==
  IF cartItemId \notin DOMAIN cart.items THEN
    CartRejected(cart, 404, "Item not found in cart")
  ELSE
    CartSaved(recalculateCart([cart EXCEPT !.items = splice(@, cartItemId)], FALSE),
              200, "Item removed from cart")

\* Cart.findOneAndDelete; the next request of the user creates the cart anew
clearCart(cart) == CartSaved(EmptyCart, 200, "Cart cleared successfully")

cartBillingPreview(cart) ==
  LET items == cart.items
      totalSubtotal == Sum([k \in DOMAIN items |-> Num(items[k].totalDiscountedPrice)])
      restaurantCharges ==
        Sum([k \in DOMAIN items |->
               IF Products[items[k].product].docType = "delivery"
               THEN 10 * items[k].quantity ELSE 0])
      couponDiscount ==
        IF cart.appliedCoupon.couponId # NoCoupon
        THEN Or(cart.appliedCoupon.discountApplied, 0) ELSE 0
      afterCoupon == Max(0, totalSubtotal - couponDiscount)
      finalTotal == afterCoupon + restaurantCharges
  IN
  IF Len(items) = 0 THEN
    CartRejected(cart, 200, "Cart is empty")
  ELSE
    CartSaved([cart EXCEPT !.subtotal = totalSubtotal, !.couponDiscount = couponDiscount,
                           !.restaurantCharges = restaurantCharges,
                           !.finalTotal = finalTotal],
              200, "Billing preview generated")

\* coupon.usedBy.find(u => u.userId === userId): the first record of the user
userUsage(usedBy, userId) ==
  findIndex({k \in DOMAIN usedBy : usedBy[k].userId = userId})

\* the discount applyCouponToCart computes from cart.totalPrice
discountAmount(terms, subtotal) ==
  IF terms.discountType = "percentage" THEN
    LET amount == RoundDiv(subtotal * terms.percentageValue, 100) IN
    IF terms.maxDiscountAmount # 0 /\ amount > terms.maxDiscountAmount
    THEN terms.maxDiscountAmount ELSE amount
  ELSE IF terms.discountType = "flat" THEN terms.flatValue
  ELSE 0

\* applyCouponToCart, were the coupon's usage recorded before the check for
\* an applied coupon
applyCouponToCart_RecordsUsageFirst(cart, usages, couponCode, userId) ==
  LET terms == CouponTerms[couponCode]
      usage == usages[couponCode]
      used == userUsage(usage.usedBy, userId)
      subtotal == cart.totalPrice
      unchanged == [coupons |-> usages]
  IN
  IF Len(cart.items) = 0 THEN
    CartRejected(cart, 400, "Cart is empty") @@ unchanged
  ELSE IF couponCode \notin Coupons THEN
    CartRejected(cart, 404, "Coupon not found") @@ unchanged
  ELSE IF ~terms.isActive THEN
    CartRejected(cart, 400, "Coupon is not active") @@ unchanged
  ELSE IF ~terms.inPeriod THEN
    CartRejected(cart, 400, "Coupon has expired or is not yet valid") @@ unchanged
  ELSE IF terms.maxUsageLimit # 0 /\ usage.usageCount >= terms.maxUsageLimit THEN
    CartRejected(cart, 400, "Coupon usage limit exceeded") @@ unchanged
  ELSE IF used # 0 /\ usage.usedBy[used].usedCount >= Or(terms.perUserLimit, 1) THEN
    CartRejected(cart, 400, "You can use this coupon only perUserLimit times") @@ unchanged
  ELSE IF terms.minOrderValue # 0 /\ subtotal < terms.minOrderValue THEN
    CartRejected(cart, 400, "Minimum order value required") @@ unchanged
  ELSE IF cart.appliedCoupon.couponId # NoCoupon THEN
    CartRejected(cart, 400, "A coupon is already applied. Remove it first.")
      @@ [coupons |-> [usages EXCEPT ![couponCode] =
                         [usageCount |-> @.usageCount + 1,
                          usedBy |-> Append(@.usedBy,
                                            [userId |-> userId, usedCount |-> 1])]]]
  ELSE
    CartSaved([cart EXCEPT !.appliedCoupon =
                 [couponId |-> couponCode,
                  discountApplied |-> discountAmount(terms, subtotal)]],
              200, "Coupon applied successfully")
      @@ [coupons |-> [usages EXCEPT ![couponCode] =
                         [usageCount |-> @.usageCount + 1,
                          usedBy |-> Append(@.usedBy,
                                            [userId |-> userId, usedCount |-> 1])]]]

\* applyCouponToCart, were an order of exactly minOrderValue refused
applyCouponToCart_MinimumExclusive(cart, usages, couponCode, userId) ==
  LET terms == CouponTerms[couponCode]
      usage == usages[couponCode]
      used == userUsage(usage.usedBy, userId)
      subtotal == cart.totalPrice
      unchanged == [coupons |-> usages]
  IN
  IF Len(cart.items) = 0 THEN
    CartRejected(cart, 400, "Cart is empty") @@ unchanged
  ELSE IF couponCode \notin Coupons THEN
    CartRejected(cart, 404, "Coupon not found") @@ unchanged
  ELSE IF ~terms.isActive THEN
    CartRejected(cart, 400, "Coupon is not active") @@ unchanged
  ELSE IF ~terms.inPeriod THEN
    CartRejected(cart, 400, "Coupon has expired or is not yet valid") @@ unchanged
  ELSE IF terms.maxUsageLimit # 0 /\ usage.usageCount >= terms.maxUsageLimit THEN
    CartRejected(cart, 400, "Coupon usage limit exceeded") @@ unchanged
  ELSE IF used # 0 /\ usage.usedBy[used].usedCount >= Or(terms.perUserLimit, 1) THEN
    CartRejected(cart, 400, "You can use this coupon only perUserLimit times") @@ unchanged
  ELSE IF terms.minOrderValue # 0 /\ subtotal <= terms.minOrderValue THEN
    CartRejected(cart, 400, "Minimum order value required") @@ unchanged
  ELSE IF cart.appliedCoupon.couponId # NoCoupon THEN
    CartRejected(cart, 400, "A coupon is already applied. Remove it first.") @@ unchanged
  ELSE
    CartSaved([cart EXCEPT !.appliedCoupon =
                 [couponId |-> couponCode,
                  discountApplied |-> discountAmount(terms, subtotal)]],
              200, "Coupon applied successfully")
      @@ [coupons |-> [usages EXCEPT ![couponCode] =
                         [usageCount |-> @.usageCount + 1,
                          usedBy |-> Append(@.usedBy,
                                            [userId |-> userId, usedCount |-> 1])]]]

\* applyCouponToCart of user userId with req.body.couponCode; usages are the
\* usage records of the Coupon collection, which the handler updates
applyCouponToCart(cart, usages, couponCode, userId) ==
  LET terms == CouponTerms[couponCode]
      usage == usages[couponCode]
      used == userUsage(usage.usedBy, userId)
      subtotal == cart.totalPrice
      unchanged == [coupons |-> usages]
  IN
  IF Len(cart.items) = 0 THEN
    CartRejected(cart, 400, "Cart is empty") @@ unchanged
  ELSE IF couponCode \notin Coupons THEN
    CartRejected(cart, 404, "Coupon not found") @@ unchanged
  ELSE IF ~terms.isActive THEN
    CartRejected(cart, 400, "Coupon is not active") @@ unchanged
  ELSE IF ~terms.inPeriod THEN
    CartRejected(cart, 400, "Coupon has expired or is not yet valid") @@ unchanged
  ELSE IF terms.maxUsageLimit # 0 /\ usage.usageCount >= terms.maxUsageLimit THEN
    CartRejected(cart, 400, "Coupon usage limit exceeded") @@ unchanged
  ELSE IF used # 0 /\ usage.usedBy[used].usedCount >= Or(terms.perUserLimit, 1) THEN
    CartRejected(cart, 400, "You can use this coupon only perUserLimit times") @@ unchanged
  ELSE IF terms.minOrderValue # 0 /\ subtotal < terms.minOrderValue THEN
    CartRejected(cart, 400, "Minimum order value required") @@ unchanged
  ELSE IF cart.appliedCoupon.couponId # NoCoupon THEN
    CartRejected(cart, 400, "A coupon is already applied. Remove it first.") @@ unchanged
  ELSE
    CartSaved([cart EXCEPT !.appliedCoupon =
                 [couponId |-> couponCode,
                  discountApplied |-> discountAmount(terms, subtotal)]],
              200, "Coupon applied successfully")
      @@ [coupons |-> [usages EXCEPT ![couponCode] =
                         [usageCount |-> @.usageCount + 1,
                          usedBy |-> Append(@.usedBy,
                                            [userId |-> userId, usedCount |-> 1])]]]

removeCouponFromCart(cart) ==
  IF cart.appliedCoupon.couponId = NoCoupon THEN
    CartRejected(cart, 400, "No coupon applied to cart")
  ELSE
    CartSaved([cart EXCEPT !.appliedCoupon = NoAppliedCoupon], 200, "Coupon removed from cart")

(***************************************************************************)
(* The grocery cart controller, with combo offers, GST and delivery charge *)
(***************************************************************************)
\* the ComboOffer collection: the products of each combo and its discount
Combos ==
  <<[isActive |-> TRUE, discountPercentage |-> 10,
     products |-> <<[product |-> 1, quantity |-> 1], [product |-> 2, quantity |-> 1]>>]>>

ComboIds == DOMAIN Combos

\* req.body.courierService: absent, a valid service, an unknown service
CourierServices == {"", "standard", "express"}

\* the total of the lines tagged with a combo
comboItemTotals(items, comboId) ==
  Sum([k \in DOMAIN items |->
         IF items[k].comboOffer = comboId
         THEN Or(items[k].discountedPrice, items[k].price) * items[k].quantity ELSE 0])

\* the applied combos with discountApplied recomputed from the tagged lines
recomputedCombos(cart) ==
  [k \in DOMAIN cart.appliedCombos |->
     LET c == cart.appliedCombos[k]
         percentage == Combos[c.comboId].discountPercentage
     IN IF percentage # 0
        THEN [c EXCEPT !.discountApplied =
                RoundDiv(comboItemTotals(cart.items, c.comboId) * percentage, 100)]
        ELSE c]

recalculateCartG(cart) ==
  LET items == cart.items
      totalItems == Sum([k \in DOMAIN items |-> items[k].quantity])
      totalOriginal == Sum([k \in DOMAIN items |-> items[k].price * items[k].quantity])
      totalDiscounted ==
        Sum([k \in DOMAIN items |->
               Or(items[k].discountedPrice, items[k].price) * items[k].quantity])
      combos == recomputedCombos(cart)
      comboDiscount == Sum([k \in DOMAIN combos |-> combos[k].discountApplied])
      couponDiscount == Or(cart.appliedCoupon.discountApplied, 0)
      afterAllDiscounts == totalDiscounted - comboDiscount - couponDiscount
      gst == RoundDiv(afterAllDiscounts * 18, 100)
      delivery == Or(cart.deliveryCharge, 0)
      subtotal == afterAllDiscounts + gst + delivery
  IN
  IF Len(items) = 0 THEN
    [cart EXCEPT
       !.totalItems = 0, !.totalPrice = 0, !.totalDiscountedPrice = 0,
       !.totalSavings = 0, !.comboDiscount = 0, !.couponDiscount = 0,
       !.deliveryCharge = 0, !.gst = 0, !.subtotal = 0, !.finalTotal = 0,
       !.appliedCombos = <<>>, !.appliedCoupon = NoAppliedCoupon]
  ELSE
    [cart EXCEPT
       !.totalItems = totalItems, !.totalPrice = totalOriginal,
       !.totalDiscountedPrice = totalDiscounted,
       !.totalSavings = totalOriginal - totalDiscounted,
       !.appliedCombos = combos, !.comboDiscount = comboDiscount,
       !.couponDiscount = couponDiscount, !.gst = gst,
       !.subtotal = subtotal, !.finalTotal = subtotal]

addToCartG(cart, productId, quantity, courierService) ==
  LET product == Products[productId]
      stock == Or(product.stock, 0)
      existingIndex ==
        findIndex({k \in DOMAIN cart.items :
                     cart.items[k].product = productId /\ cart.items[k].comboOffer = NoCombo})
      newQty == cart.items[existingIndex].quantity + quantity
      items ==
        IF existingIndex >= 1
        THEN IF newQty <= 0 THEN splice(cart.items, existingIndex)
             ELSE [cart.items EXCEPT ![existingIndex] = mergedLine(@, newQty)]
        ELSE Append(cart.items, newLine(productId, quantity))
      selectedService == IF courierService = "" THEN "regular" ELSE courierService
  IN
  IF ~product.inStock THEN
    CartRejected(cart, 400, "Product is out of stock")
  ELSE IF stock < quantity THEN
    CartRejected(cart, 400, "Insufficient stock")
  ELSE IF existingIndex >= 1 /\ newQty > 0 /\ stock # 0 /\ newQty > stock THEN
    CartRejected(cart, 400, "Max available")
  ELSE IF selectedService \notin {"regular", "standard"} THEN
    CartRejected(cart, 400, "Courier service must be regular or standard")
  ELSE IF ~validates(items) THEN
    CartRejected(cart, 500, "Validation failed")
  ELSE
    CartSaved(recalculateCartG(
                [cart EXCEPT !.items = items,
                             !.deliveryCharge = IF selectedService = "regular" THEN 10 ELSE 12]),
              200, "Cart updated")

\* getCart recalculates the document it read and does not save it
getCartG(cart) == CartRejected(cart, 200, "Cart fetched")

\* the line with its quantity set by updateCartItem
updatedLineG(line, quantity) ==
  [line EXCEPT
     !.quantity = quantity,
     !.totalPrice = line.price * quantity,
     !.totalDiscountedPrice = Num(line.discountedPrice) * quantity]

updateCartItemG(cart, cartItemId, quantity) ==
  LET item == cart.items[cartItemId] IN
  IF quantity = 0 \/ quantity < 1 THEN
    CartRejected(cart, 400, "Quantity must be at least 1")
  ELSE IF cartItemId \notin DOMAIN cart.items THEN
    CartRejected(cart, 404, "Item not in cart")
  ELSE IF quantity > item.stock THEN
    CartRejected(cart, 400, "Insufficient stock")
  ELSE
    CartSaved(recalculateCartG([cart EXCEPT !.items[cartItemId] = updatedLineG(@, quantity)]),
              200, "Cart item updated")

\* appliedCombos.filter(c => c.comboId !== comboId)
RECURSIVE withoutCombo(_, _)
withoutCombo(combos, comboId) ==
  IF combos = <<>> THEN <<>>
  ELSE IF Head(combos).comboId = comboId THEN withoutCombo(Tail(combos), comboId)
  ELSE <<Head(combos)>> \o withoutCombo(Tail(combos), comboId)

removeFromCartG(cart, cartItemId) ==
  LET comboOfferId == cart.items[cartItemId].comboOffer
      items == splice(cart.items, cartItemId)
      remainingComboItems == \E k \in DOMAIN items : items[k].comboOffer = comboOfferId
      combos == IF comboOfferId # NoCombo /\ ~remainingComboItems
                THEN withoutCombo(cart.appliedCombos, comboOfferId)
                ELSE cart.appliedCombos
  IN
  IF cartItemId \notin DOMAIN cart.items THEN
    CartRejected(cart, 404, "Item not found in cart")
  ELSE
    CartSaved(recalculateCartG([cart EXCEPT !.items = items, !.appliedCombos = combos]),
              200, "Item removed from cart")

\* the line applyComboToCart pushes for one product of the combo
comboLine(cp, comboId, comboQty) ==
  LET prod == Products[cp.product]
      basePrice == Or(prod.price, 0)
      \* the product schema has no discountedPrice: prod.discountedPrice || basePrice
      discountedUnitPrice == Or(Null, basePrice)
  IN [product |-> cp.product, comboOffer |-> comboId, price |-> basePrice,
      discountedPrice |-> discountedUnitPrice, quantity |-> comboQty,
      totalPrice |-> comboQty * basePrice,
      totalDiscountedPrice |-> comboQty * discountedUnitPrice,
      stock |-> Or(prod.stock, 0)]

\* an existing combo line with the quantity of the request added
raisedComboLine(existing, comboQty) ==
  [existing EXCEPT
     !.quantity = @ + comboQty,
     !.totalPrice = existing.price * (existing.quantity + comboQty),
     !.totalDiscountedPrice = Num(existing.discountedPrice) * (existing.quantity + comboQty)]

\* for (const cp of productsToProcess) { ... }: acc carries the in-memory
\* lines, the combo's original total, and whether the loop returned a response
RECURSIVE forComboProducts(_, _, _, _)
forComboProducts(acc, comboId, k, quantity) ==
  LET products == Combos[comboId].products IN
  IF k > Len(products) THEN acc
  ELSE
    LET cp == products[k]
        prod == Products[cp.product]
        comboQty == Or(cp.quantity, 1) * quantity
        stock == Or(prod.stock, 0)
        existing == findIndex({j \in DOMAIN acc.items :
                                 /\ acc.items[j].product = cp.product
                                 /\ acc.items[j].comboOffer = comboId})
    IN
    IF stock > 0 /\ comboQty > stock THEN [acc EXCEPT !.returned = TRUE]
    ELSE forComboProducts(
           [acc EXCEPT
              !.items = IF existing # 0
                        THEN [@ EXCEPT ![existing] = raisedComboLine(@, comboQty)]
                        ELSE Append(@, comboLine(cp, comboId, comboQty)),
              !.totalComboOriginalPrice = @ + Or(prod.price, 0) * comboQty],
           comboId, k + 1, quantity)

applyComboToCartG(cart, comboId, quantity) ==
  LET combo == Combos[comboId]
      loop == forComboProducts(
                [items |-> cart.items, totalComboOriginalPrice |-> 0, returned |-> FALSE],
                comboId, 1, quantity)
      applied == \E k \in DOMAIN cart.appliedCombos : cart.appliedCombos[k].comboId = comboId
      combos ==
        IF applied THEN cart.appliedCombos
        ELSE Append(cart.appliedCombos,
                    [comboId |-> comboId,
                     discountApplied |->
                       RoundDiv(loop.totalComboOriginalPrice * combo.discountPercentage, 100)])
  IN
  IF quantity < 1 THEN
    CartRejected(cart, 400, "Quantity must be a positive number")
  ELSE IF comboId \notin ComboIds THEN
    CartRejected(cart, 404, "Combo not found")
  ELSE IF ~combo.isActive THEN
    CartRejected(cart, 400, "Combo is not active")
  ELSE IF loop.returned THEN
    CartRejected(cart, 400, "Insufficient stock")
  ELSE
    CartSaved(recalculateCartG([cart EXCEPT !.items = loop.items, !.appliedCombos = combos]),
              200, "Combo applied successfully")

\* cart.items.filter(item => item.comboOffer !== comboId)
RECURSIVE withoutComboItems(_, _)
withoutComboItems(items, comboId) ==
  IF items = <<>> THEN <<>>
  ELSE IF Head(items).comboOffer = comboId THEN withoutComboItems(Tail(items), comboId)
  ELSE <<Head(items)>> \o withoutComboItems(Tail(items), comboId)

removeComboFromCartG(cart, comboId) ==
  LET comboIndex ==
        findIndex({k \in DOMAIN cart.appliedCombos : cart.appliedCombos[k].comboId = comboId})
  IN
  IF comboIndex = 0 THEN
    CartRejected(cart, 404, "Combo not found in cart")
  ELSE
    CartSaved(recalculateCartG(
                [cart EXCEPT !.appliedCombos = splice(@, comboIndex),
                             !.items = withoutComboItems(@, comboId)]),
              200, "Combo removed from cart")

cartBillingPreviewG(cart) ==
  LET items == cart.items
      subtotal == Sum([k \in DOMAIN items |-> Num(items[k].totalDiscountedPrice)])
      comboDiscount ==
        Sum([k \in DOMAIN cart.appliedCombos |-> Or(cart.appliedCombos[k].discountApplied, 0)])
      couponDiscount ==
        IF cart.appliedCoupon.couponId # NoCoupon
        THEN Or(cart.appliedCoupon.discountApplied, 0) ELSE 0
      totalBeforeTax == Max(0, subtotal - comboDiscount - couponDiscount)
      gstAmount == RoundDiv(totalBeforeTax * 18, 100)
      shippingCharges == Or(cart.deliveryCharge, 0)
      finalTotal == totalBeforeTax + gstAmount + shippingCharges
  IN
  IF Len(items) = 0 THEN
    CartRejected(cart, 200, "Cart is empty")
  ELSE
    CartSaved([cart EXCEPT !.subtotal = subtotal, !.comboDiscount = comboDiscount,
                           !.couponDiscount = couponDiscount, !.gst = gstAmount,
                           !.finalTotal = finalTotal],
              200, "Billing preview generated")

(***************************************************************************)
(* The state machine.                                                      *)
(***************************************************************************)
Admin == [role |-> "admin", userId |-> 0]

\* the order after its first k whole-order advances by the admin, the last
\* of them at time t: the fulfilment that precedes the run
RECURSIVE fulfilled(_, _, _, _)
fulfilled(n, paymentMethod, k, t) ==
  IF k = 0 THEN createOrder(n, paymentMethod, t)
  ELSE updateOrderStatus(fulfilled(n, paymentMethod, k - 1, t - 1),
                         At(hierarchy, k), NoItem, Admin, t).order

\* the time at which the run starts
StartTime == Len(hierarchy)

Deadline == StartTime + MaxOps

Init ==
  /\ \E n \in 1..MaxItems, paymentMethod \in PaymentMethods, k \in 0..(Len(hierarchy) - 1) :
       order = fulfilled(n, paymentMethod, k, StartTime)
  /\ stripe = [intent |-> "none", succeeded |-> FALSE, failed |-> FALSE]
  /\ now = StartTime
  /\ carts = [u \in Users |-> EmptyCart]
  /\ coupons = [c \in Coupons |-> UnusedCoupon]
  /\ controller = "delivery"
  /\ sold = 0
  /\ inflight = NoReads

\* the handler's result becomes the persisted state; a request that is
\* answered before order.save() leaves the state as it was
Handle(result) ==
  /\ IF result.saved
     THEN /\ order' = result.order
          /\ IF result.dated THEN now < Deadline /\ now' = now + 1 ELSE now' = now
     ELSE UNCHANGED <<order, now>>
  /\ UNCHANGED <<cartVars, inflight>>

UpdateOrderStatus(status, itemId, caller) ==
  /\ Handle(updateOrderStatus(order, status, itemId, caller, now + 1))
  /\ UNCHANGED <<stripe, sold>>

CancelOrder ==
  /\ Handle(cancelOrder(order, now + 1))
  /\ UNCHANGED <<stripe, sold>>

ReturnOrder(reason) ==
  /\ Handle(returnOrder(order, reason, now + 1))
  /\ UNCHANGED <<stripe, sold>>

InitiatePayment ==
  LET result == initiatePayment(order, stripe.intent) IN
  /\ Handle(result)
  /\ stripe' = IF result.saved THEN [stripe EXCEPT !.intent = NewIntent] ELSE stripe
  /\ UNCHANGED sold

VerifyPayment(confirmed) ==
  LET intent == IF order.paymentInfo.status # "completed"
                   /\ order.paymentInfo.stripePaymentIntentId
                THEN intentAfterConfirm(stripe.intent, confirmed)
                ELSE stripe.intent
      result == verifyPayment(order, stripe.intent, confirmed, now + 1)
  IN
  /\ Handle(result)
  /\ stripe' = IF intent = "throw" THEN stripe
               ELSE [stripe EXCEPT !.intent = intent,
                                   !.succeeded = @ \/ intent = "succeeded"]
  /\ sold' = soldAfter(sold, result.saved)

GetPaymentStatus ==
  /\ Handle(getPaymentStatus(order, stripe.intent))
  /\ UNCHANGED <<stripe, sold>>

ProcessRefund(amount, refunded) ==
  /\ Handle(processRefund(order, amount, refunded, now + 1))
  /\ UNCHANGED <<stripe, sold>>

\* the gateway delivers an event it has emitted, any number of times
StripeWebhook(type) ==
  /\ type = "payment_intent.succeeded" => stripe.succeeded
  /\ type = "payment_intent.payment_failed" => stripe.failed
  /\ Handle(handleStripeWebhook(order, type, now + 1))
  /\ UNCHANGED stripe
  /\ sold' = soldAfter(sold, type = "payment_intent.succeeded"
                               /\ handleStripeWebhook(order, type, now + 1).saved)

\* the customer completes the payment on the client
CustomerPays ==
  /\ stripe.intent \in {"requires_payment_method", "requires_action"}
  /\ stripe' = [stripe EXCEPT !.intent = "succeeded", !.succeeded = TRUE]
  /\ UNCHANGED <<order, now>>
  /\ UNCHANGED <<cartVars, payVars>>

\* a payment attempt of the customer is declined
PaymentDeclined ==
  /\ stripe.intent \in {"requires_payment_method", "requires_action"}
  /\ stripe' = [stripe EXCEPT !.intent = "requires_payment_method", !.failed = TRUE]
  /\ UNCHANGED <<order, now>>
  /\ UNCHANGED <<cartVars, payVars>>

Amounts == -1..(FinalTotal + 1)

ConfirmOutcomes == {"succeeded", "requires_action", "throw"}

Next ==
  \/ \E status \in RequestStatuses, itemId \in 0..MaxItems, caller \in Callers :
       UpdateOrderStatus(status, itemId, caller)
  \/ CancelOrder
  \/ \E reason \in BOOLEAN : ReturnOrder(reason)
  \/ InitiatePayment
  \/ \E confirmed \in ConfirmOutcomes : VerifyPayment(confirmed)
  \/ GetPaymentStatus
  \/ \E amount \in Amounts, refunded \in BOOLEAN : ProcessRefund(amount, refunded)
  \/ \E type \in WebhookEvents : StripeWebhook(type)
  \/ CustomerPays
  \/ PaymentDeclined

Spec == Init /\ [][Next]_vars

TypeOK ==
  /\ \A i \in DOMAIN order.items : order.items[i].itemStatus \in itemStatusEnum
  /\ order.orderStatus.current \in validStatuses
  /\ order.paymentInfo.status \in {"pending", "completed", "failed", "refunded"}
  /\ stripe.intent \in IntentStatuses
  /\ now \in StartTime..Deadline

(***************************************************************************)
(* createOrder, the part that reads and writes the cart.                   *)
(***************************************************************************)
\* the user's selected address: none selected, selected but not among the
\* user's addresses, selected and found
Addresses == {"none", "missing", "resolved"}

\* req.body.paymentMethod: a valid method (the four of them take the same
\* branch of createOrder) and a stray word
CheckoutMethods == {"cod", "paypal"}

\* Cart.updateOne({ userId }, { $set: ... }) after Order.create
emptiedCart(cart) ==
  [cart EXCEPT
     !.items = <<>>, !.totalItems = 0, !.totalPrice = 0, !.totalDiscountedPrice = 0,
     !.totalSavings = 0, !.appliedCoupon = NoAppliedCoupon, !.couponDiscount = 0,
     !.finalTotal = 0]

\* createOrder as the cart sees it: the cart it leaves persisted, its
\* answer, whether the cart was written and whether an order was created
createOrderCart(cart, address, paymentMethod) ==
  LET recalculated == recalculateCartAtCheckout(cart)
      refused(msg) == [cart |-> recalculated, code |-> 400, msg |-> msg,
                       saved |-> TRUE, created |-> FALSE]
  IN
  IF Len(cart.items) = 0 THEN
    CartRejected(cart, 400, "Cart is empty. Cannot create order.") @@ [created |-> FALSE]
  ELSE IF address = "none" THEN refused("Please select a shipping address")
  ELSE IF paymentMethod \notin {"cod", "card", "upi", "netbanking"} THEN
    refused("Invalid payment method. Allowed: COD, CARD, UPI, NETBANKING")
  ELSE IF address # "resolved" THEN refused("Selected address not found")
  ELSE
    CartSaved(emptiedCart(recalculated), 200, "Order created successfully")
      @@ [created |-> TRUE]

(***************************************************************************)
(* The cart state machine: the cart routes of every user, served by one of *)
(* the two cart controllers.                                               *)
(***************************************************************************)
CartDeadline == StartTime + MaxCartOps

\* req.body.quantity of addToCart and of updateCartItem / applyComboToCart
AddQuantities == {-1, 0, 1, 3}

SetQuantities == {0, 1, 2}

\* req.body.couponCode: the codes of the collection and an unknown code
CouponCodes == Coupons \cup {NoCoupon}

\* the cart of a user who has added one unit of the first product
FilledCart(ctrl) ==
  IF ctrl = "delivery" THEN addToCart(EmptyCart, 1, 1).cart
  ELSE addToCartG(EmptyCart, 1, 1, "").cart

\* the usage records after the other users have each applied the first
\* coupon to their filled cart and removed it again, in rounds rounds
RECURSIVE redeemedBefore(_, _)
redeemedBefore(ctrl, rounds) ==
  IF rounds = 0 THEN [c \in Coupons |-> UnusedCoupon]
  ELSE applyCouponToCart(FilledCart(ctrl), redeemedBefore(ctrl, rounds - 1), 1, 2).coupons

\* req.body.courierService, which only the grocery addToCart reads
BodyCourierServices == IF controller = "grocery" THEN CourierServices ELSE {""}

CartInit ==
  /\ controller \in {"delivery", "grocery"}
  /\ carts = [u \in Users |-> IF u = Shopper THEN EmptyCart ELSE FilledCart(controller)]
  /\ \E rounds \in 0..1 : coupons = redeemedBefore(controller, rounds)
  /\ order = createOrder(1, "cod", StartTime)
  /\ stripe = [intent |-> "none", succeeded |-> FALSE, failed |-> FALSE]
  /\ now = StartTime
  /\ sold = 0
  /\ inflight = NoReads

\* the handler's result becomes the persisted cart of the user; a request
\* answered before cart.save() leaves it as it was
CartHandle(u, result) ==
  /\ IF result.saved
     THEN /\ carts' = [carts EXCEPT ![u] = result.cart]
          /\ now < CartDeadline
          /\ now' = now + 1
     ELSE UNCHANGED <<carts, now>>
  /\ UNCHANGED <<orderVars, controller, payVars>>

AddToCart(u, productId, quantity, courierService) ==
  /\ CartHandle(u, IF controller = "delivery"
                   THEN addToCart(carts[u], productId, quantity)
                   ELSE addToCartG(carts[u], productId, quantity, courierService))
  /\ UNCHANGED coupons

GetCart(u) ==
  /\ CartHandle(u, IF controller = "delivery" THEN getCart(carts[u]) ELSE getCartG(carts[u]))
  /\ UNCHANGED coupons

UpdateCartItem(u, cartItemId, quantity) ==
  /\ CartHandle(u, IF controller = "delivery"
                   THEN updateCartItem(carts[u], cartItemId, quantity)
                   ELSE updateCartItemG(carts[u], cartItemId, quantity))
  /\ UNCHANGED coupons

RemoveFromCart(u, cartItemId) ==
  /\ CartHandle(u, IF controller = "delivery"
                   THEN removeFromCart(carts[u], cartItemId)
                   ELSE removeFromCartG(carts[u], cartItemId))
  /\ UNCHANGED coupons

ClearCart(u) ==
  /\ carts[u] # EmptyCart
  /\ CartHandle(u, clearCart(carts[u]))
  /\ UNCHANGED coupons

CartBillingPreview(u) ==
  /\ CartHandle(u, IF controller = "delivery"
                   THEN cartBillingPreview(carts[u])
                   ELSE cartBillingPreviewG(carts[u]))
  /\ UNCHANGED coupons

ApplyCouponToCart(u, couponCode) ==
  LET result == applyCouponToCart(carts[u], coupons, couponCode, u) IN
  /\ CartHandle(u, result)
  /\ coupons' = result.coupons

RemoveCouponFromCart(u) ==
  /\ CartHandle(u, removeCouponFromCart(carts[u]))
  /\ UNCHANGED coupons

ApplyComboToCart(u, comboId, quantity) ==
  /\ controller = "grocery"
  /\ CartHandle(u, applyComboToCartG(carts[u], comboId, quantity))
  /\ UNCHANGED coupons

RemoveComboFromCart(u, comboId) ==
  /\ controller = "grocery"
  /\ CartHandle(u, removeComboFromCartG(carts[u], comboId))
  /\ UNCHANGED coupons

\* createOrder of user u: the cart is written, and on success the order is
\* created from its lines
CreateOrder(u, address, paymentMethod) ==
  LET result == createOrderCart(carts[u], address, paymentMethod) IN
  /\ IF result.saved
     THEN /\ carts' = [carts EXCEPT ![u] = result.cart]
          /\ now < CartDeadline
          /\ now' = now + 1
     ELSE UNCHANGED <<carts, now>>
  /\ order' = IF result.created
              THEN createOrder(Len(carts[u].items), paymentMethod, now + 1)
              ELSE order
  /\ UNCHANGED <<stripe, coupons, controller, payVars>>

CartNext ==
  \/ \E productId \in ProductIds, quantity \in AddQuantities,
        courierService \in BodyCourierServices :
       AddToCart(Shopper, productId, quantity, courierService)
  \/ GetCart(Shopper)
  \/ \E cartItemId \in 1..(Len(carts[Shopper].items) + 1), quantity \in SetQuantities :
       UpdateCartItem(Shopper, cartItemId, quantity)
  \/ \E cartItemId \in 1..(Len(carts[Shopper].items) + 1) :
       RemoveFromCart(Shopper, cartItemId)
  \/ ClearCart(Shopper)
  \/ CartBillingPreview(Shopper)
  \/ \E u \in Users, couponCode \in CouponCodes : ApplyCouponToCart(u, couponCode)
  \/ \E u \in Users : RemoveCouponFromCart(u)
  \/ \E comboId \in ComboIds, quantity \in SetQuantities :
       ApplyComboToCart(Shopper, comboId, quantity)
  \/ \E comboId \in ComboIds : RemoveComboFromCart(Shopper, comboId)
  \/ \E address \in Addresses, paymentMethod \in CheckoutMethods :
       CreateOrder(Shopper, address, paymentMethod)

CartSpec == CartInit /\ [][CartNext]_vars

(***************************************************************************)
(* The payment handlers as two steps each: Order.findOne, and everything   *)
(* from the status check to order.save() and the sold counters.  Between   *)
(* the two steps of one request the other request may read and save.       *)
(***************************************************************************)
\* what a handler holds between its read and its save: the event of the
\* request ("none" for verifyPayment) and the document findOne returned
Read(event, o) == <<[event |-> event, order |-> o]>>

\* order.save() writes the paths the handler changed on the document it read;
\* every other path keeps what is persisted, and a push is appended to the
\* persisted array
savedOver(persisted, read, written) ==
  LET paths(p, r, w) == [f \in DOMAIN p |-> IF w[f] # r[f] THEN w[f] ELSE p[f]]
      pushed == SubSeq(written.orderStatus.history,
                       Len(read.orderStatus.history) + 1,
                       Len(written.orderStatus.history))
  IN [persisted EXCEPT
        !.paymentInfo = paths(@, read.paymentInfo, written.paymentInfo),
        !.timeline = paths(@, read.timeline, written.timeline),
        !.orderStatus.current = IF written.orderStatus.current # read.orderStatus.current
                                THEN written.orderStatus.current ELSE @,
        !.orderStatus.history = @ \o pushed,
        !.items = [i \in DOMAIN @ |->
                     IF written.items[i] # read.items[i]
                     THEN [@[i] EXCEPT !.itemStatus = written.items[i].itemStatus]
                     ELSE @[i]]]

\* the save carries a write into an array of a document that was saved by
\* another request since it was read: the document version may have moved,
\* and save() then throws instead of writing
versionMayDiffer(persisted, read, written) ==
  /\ persisted # read
  /\ \/ written.items # read.items
     \/ written.orderStatus.history # read.orderStatus.history

\* order.save() of a request that read the order earlier; thrown is whether
\* save() throws, which the handler's catch answers without any write
SaveOver(read, result, thrown) ==
  IF result.saved /\ ~thrown
  THEN /\ order' = savedOver(order, read, result.order)
       /\ IF result.dated THEN now < Deadline /\ now' = now + 1 ELSE now' = now
  ELSE UNCHANGED <<order, now>>

VerifyReads ==
  /\ inflight["verifyPayment"] = <<>>
  /\ inflight' = [inflight EXCEPT !["verifyPayment"] = Read("none", order)]
  /\ UNCHANGED <<order, stripe, now, sold>>
  /\ UNCHANGED cartVars

VerifySaves(confirmed, thrown) ==
  /\ inflight["verifyPayment"] # <<>>
  /\ LET read == inflight["verifyPayment"][1].order
         intent == IF read.paymentInfo.status # "completed"
                      /\ read.paymentInfo.stripePaymentIntentId
                   THEN intentAfterConfirm(stripe.intent, confirmed)
                   ELSE stripe.intent
         result == verifyPayment(read, stripe.intent, confirmed, now + 1)
     IN /\ thrown => result.saved /\ versionMayDiffer(order, read, result.order)
        /\ SaveOver(read, result, thrown)
        /\ stripe' = IF intent = "throw" THEN stripe
                     ELSE [stripe EXCEPT !.intent = intent,
                                         !.succeeded = @ \/ intent = "succeeded"]
        /\ sold' = soldAfter(sold, result.saved /\ ~thrown)
  /\ inflight' = [inflight EXCEPT !["verifyPayment"] = <<>>]
  /\ UNCHANGED cartVars

WebhookReads(type) ==
  /\ type = "payment_intent.succeeded" => stripe.succeeded
  /\ type = "payment_intent.payment_failed" => stripe.failed
  /\ inflight["handleStripeWebhook"] = <<>>
  /\ inflight' = [inflight EXCEPT !["handleStripeWebhook"] = Read(type, order)]
  /\ UNCHANGED <<order, stripe, now, sold>>
  /\ UNCHANGED cartVars

WebhookSaves(thrown) ==
  /\ inflight["handleStripeWebhook"] # <<>>
  /\ LET read == inflight["handleStripeWebhook"][1].order
         type == inflight["handleStripeWebhook"][1].event
         result == handleStripeWebhook(read, type, now + 1)
     IN /\ thrown => result.saved /\ versionMayDiffer(order, read, result.order)
        /\ SaveOver(read, result, thrown)
        /\ sold' = soldAfter(sold, type = "payment_intent.succeeded"
                                     /\ result.saved /\ ~thrown)
  /\ inflight' = [inflight EXCEPT !["handleStripeWebhook"] = <<>>]
  /\ UNCHANGED stripe
  /\ UNCHANGED cartVars

PayNext ==
  \/ InitiatePayment
  \/ CustomerPays
  \/ PaymentDeclined
  \/ VerifyReads
  \/ \E confirmed \in ConfirmOutcomes, thrown \in BOOLEAN : VerifySaves(confirmed, thrown)
  \/ \E type \in WebhookEvents : WebhookReads(type)
  \/ \E thrown \in BOOLEAN : WebhookSaves(thrown)

PaySpec == Init /\ [][PayNext]_vars

(***************************************************************************)
(* Properties of the order state machine.                                  *)
(***************************************************************************)
Position(status) == IndexOf(hierarchy, status)

Items == DOMAIN order.items

StatusOf(o, i) == o.items[i].itemStatus

\* C1: the aggregate status is consistent with the item statuses: it is
\* 'cancelled' only when every item is cancelled, and 'returned' only when
\* every item is cancelled or returned.
C1_AggregateDerivedFromItems ==
  /\ order.orderStatus.current = "cancelled" =>
       \A i \in Items : StatusOf(order, i) = "cancelled"
  /\ order.orderStatus.current = "returned" =>
       \A i \in Items : StatusOf(order, i) \in {"cancelled", "returned"}

\* C2: in no step, and so across no sequence of updateOrderStatus calls,
\* does the position of orderStatus.current in
\* pending < confirmed < processing < shipped < delivered decrease.
C2_AggregateNeverRegresses ==
  [][Position(order.orderStatus.current) # -1 /\ Position(order'.orderStatus.current) # -1
       => Position(order'.orderStatus.current) >= Position(order.orderStatus.current)]_vars

\* the aggregate is ahead of what the active items determine: an update kept
\* it there after the most advanced item was cancelled
C2_Witness ==
  /\ activeItems(order.items) # {}
  /\ \E i \in Items : StatusOf(order, i) = "cancelled"
  /\ Position(order.orderStatus.current) > Position(determinedStatus(order.items))

\* the item graph of the specification
ItemEdge(from, to) ==
  \/ Position(from) # -1 /\ Position(to) = Position(from) + 1
  \/ from \in {"pending", "confirmed", "processing", "shipped"} /\ to = "cancelled"
  \/ from = "delivered" /\ to = "returned"

\* C3: every change of an item's itemStatus is an edge of the item graph:
\* one forward step, pending/confirmed/processing/shipped -> cancelled, or
\* delivered -> returned.
C3_ItemChangesFollowGraph ==
  [][\A i \in Items :
       StatusOf(order', i) # StatusOf(order, i)
         => ItemEdge(StatusOf(order, i), StatusOf(order', i))]_vars

\* the requests of updateOrderStatus
Requests ==
  [status : RequestStatuses, itemId : 0..MaxItems, caller : Callers]

Answer(req) ==
  updateOrderStatus(order, req.status, req.itemId, req.caller, now + 1)

\* the request reaches item i: it passes the filters and the item is active
Reaches(req, i) ==
  /\ addressed(order.items[i], i, req.itemId, req.caller)
  /\ StatusOf(order, i) \notin {"cancelled", "returned"}

Target(req) == Position(normalizedStatus(req.status))

\* the target of the request is more than one step ahead of item i
SkipsAStep(req, i) ==
  /\ Reaches(req, i)
  /\ Target(req) > Position(StatusOf(order, i)) + 1

\* the first item whose next step the request skips
FirstSkipped(req) ==
  CHOOSE i \in Items :
    SkipsAStep(req, i) /\ \A j \in Items : SkipsAStep(req, j) => i <= j

\* C4: a request whose target is more than one step ahead of an item it
\* reaches fails with an error naming the required next step, and nothing
\* of the request is persisted.
C4_SkipFailsAndPersistsNothing ==
  \A req \in Requests :
    (\E i \in Items : SkipsAStep(req, i)) =>
      LET answer == Answer(req) IN
      /\ answer.response.code = 400
      /\ answer.response.next =
           At(hierarchy, Position(StatusOf(order, FirstSkipped(req))) + 1)
      /\ ~answer.saved
      /\ answer.order = order

\* a request skips a step of one item after it has advanced another in memory
C4_Witness ==
  \E req \in Requests, i, j \in Items :
    /\ i < j
    /\ Reaches(req, i)
    /\ Target(req) = Position(StatusOf(order, i)) + 1
    /\ SkipsAStep(req, j)
    /\ Answer(req).response.next = "confirmed"

\* the target of the request is behind item i
Backward(req, i) ==
  /\ Reaches(req, i)
  /\ Target(req) # -1
  /\ Target(req) < Position(StatusOf(order, i))

\* C5 as stated: a request whose target is behind an item's status is a
\* silent no-op: it is not answered with an error and changes nothing.
C5_BackwardIsSilentNoOp ==
  \A req \in Requests :
    (\E i \in Items : Backward(req, i)) =>
      LET answer == Answer(req) IN
      /\ answer.response.code = 200
      /\ answer.order = order

\* C5 (amended): a request whose target is behind an item's status leaves
\* that item as it was; when it is behind every item the request reaches,
\* nothing is persisted and the request is answered with a 400 error that
\* names no next step.
C5_BackwardLeavesItemAndIsRejected ==
  \A req \in Requests :
    (\E i \in Items : Backward(req, i)) =>
      LET answer == Answer(req) IN
      /\ \A i \in Items : Backward(req, i) => answer.order.items[i] = order.items[i]
      /\ (\A i \in Items : Reaches(req, i) => Backward(req, i))
         => /\ ~answer.saved
            /\ answer.order = order
            /\ answer.response.code = 400
            /\ answer.response.next = "none"
            /\ answer.response.msg \in
                 {"No valid items found to update or permission denied",
                  "Order is fully delivered/completed"}

\* a request moves one item forward while its target is behind another item
C5_Witness ==
  \E req \in Requests, i, j \in Items :
    /\ Backward(req, i)
    /\ Reaches(req, j)
    /\ Target(req) = Position(StatusOf(order, j)) + 1
    /\ Answer(req).saved

\* the succeeded event handled once, and handled a second time
WebhookOnce == handleStripeWebhook(order, "payment_intent.succeeded", now + 1).order

WebhookTwice == handleStripeWebhook(WebhookOnce, "payment_intent.succeeded", now + 2).order

\* C6: when payment_intent.succeeded is handled for an order whose items are
\* all pending, every item becomes confirmed and the aggregate becomes
\* confirmed; handling the event a second time changes nothing.
C6_WebhookConfirmsPendingItems ==
  (stripe.succeeded /\ \A i \in Items : StatusOf(order, i) = "pending") =>
    /\ \A i \in Items : WebhookOnce.items[i].itemStatus = "confirmed"
    /\ WebhookOnce.orderStatus.current = "confirmed"
    /\ WebhookTwice = WebhookOnce

\* C7: while paymentInfo.status is 'completed', no item is 'pending'.
C7_CompletedPaymentLeavesNoPendingItem ==
  order.paymentInfo.status = "completed" =>
    \A i \in Items : StatusOf(order, i) # "pending"

\* C8: every change of an item's itemStatus appends exactly one record with
\* the new status to that item's statusHistory.
C8_ItemChangeAppendsHistory ==
  [][\A i \in Items :
       StatusOf(order', i) # StatusOf(order, i) =>
         /\ Len(order'.items[i].statusHistory) = Len(order.items[i].statusHistory) + 1
         /\ SubSeq(order'.items[i].statusHistory, 1, Len(order.items[i].statusHistory))
              = order.items[i].statusHistory
         /\ order'.items[i].statusHistory[Len(order'.items[i].statusHistory)].status
              = StatusOf(order', i)]_vars

\* the statuses of the active items
ActiveStatuses(its) == {its[i].itemStatus : i \in activeItems(its)}

\* the status of the least-advanced active item
LeastAdvanced(its) ==
  CHOOSE s \in ActiveStatuses(its) :
    \A r \in ActiveStatuses(its) : Position(s) <= Position(r)

\* the derivation as C9 states it
StatedDerivation(its) ==
  IF ActiveStatuses(its) = {"delivered"} THEN "delivered"
  ELSE IF /\ Position(LeastAdvanced(its)) < Position("processing")
          /\ ActiveStatuses(its) \cap {"processing", "shipped", "delivered"} # {}
       THEN "processing"
  ELSE LeastAdvanced(its)

\* the derivation with the second floor: 'shipped' once an active item is
\* shipped or delivered
AmendedDerivation(its) ==
  IF ActiveStatuses(its) = {"delivered"} THEN "delivered"
  ELSE IF ActiveStatuses(its) \cap {"shipped", "delivered"} # {} THEN "shipped"
  ELSE IF "processing" \in ActiveStatuses(its) THEN "processing"
  ELSE LeastAdvanced(its)

\* the no-regression guard does not apply to the derived status
GuardIdle(derived) ==
  \/ Position(order.orderStatus.current) = -1
  \/ Position(derived) >= Position(order.orderStatus.current)

\* the aggregate of every saved update that leaves an active item and is
\* not held by the guard follows the derivation
FollowsDerivation(Derivation(_)) ==
  \A req \in Requests :
    LET answer == Answer(req)
        derived == Derivation(answer.order.items)
    IN ( /\ answer.saved
         /\ activeItems(answer.order.items) # {}
         /\ GuardIdle(derived) )
       => answer.order.orderStatus.current = derived

\* C9 as stated: after a successful updateOrderStatus that leaves an active
\* item, and when the guard does not apply, the aggregate is 'delivered' if
\* all active items are delivered, otherwise 'processing' if the least
\* advanced active item is behind processing while some active item is
\* processing, shipped or delivered, otherwise the least-advanced status.
C9_AggregateIsStatedDerivation == FollowsDerivation(StatedDerivation)

\* C9 (amended): ... 'delivered' if all active items are delivered, otherwise
\* 'shipped' if some active item is shipped or delivered, otherwise
\* 'processing' if some active item is processing, otherwise the status of
\* the least-advanced active item.
C9_AggregateIsAmendedDerivation == FollowsDerivation(AmendedDerivation)

\* an update has just shipped one item while another is behind it, and the
\* aggregate entered 'shipped' with that write
C9_Witness ==
  /\ \E i, j \in Items :
       /\ StatusOf(order, i) \in {"pending", "confirmed", "processing"}
       /\ StatusOf(order, j) = "shipped"
       /\ order.items[j].statusHistory[Len(order.items[j].statusHistory)].timestamp = now
  /\ order.orderStatus.current = "shipped"
  /\ order.timeline.orderShipped = now

\* C10: once every item of the order has been cancelled, the aggregate
\* status is 'cancelled'.
C10_AllItemsCancelledGivesCancelled ==
  (\A i \in Items : StatusOf(order, i) = "cancelled") =>
    order.orderStatus.current = "cancelled"

\* the items of a multi-item order were cancelled one by one, in separate
\* requests, from different states
C10_Witness ==
  /\ Len(order.items) >= 2
  /\ \A i \in Items : StatusOf(order, i) = "cancelled"
  /\ \E i, j \in Items : order.items[i].cancelledAt < order.items[j].cancelledAt
  /\ order.orderStatus.current = "cancelled"

(***************************************************************************)
(* Properties of the cart.                                                 *)
(***************************************************************************)
\* what the cart routes answer to a request of user u in the current state
AddAnswer(u, productId, quantity, courierService) ==
  IF controller = "delivery"
  THEN addToCart(carts[u], productId, quantity)
  ELSE addToCartG(carts[u], productId, quantity, courierService)

UpdateAnswer(cart, cartItemId, quantity) ==
  IF controller = "delivery"
  THEN updateCartItem(cart, cartItemId, quantity)
  ELSE updateCartItemG(cart, cartItemId, quantity)

RemoveAnswer(cart, cartItemId) ==
  IF controller = "delivery"
  THEN removeFromCart(cart, cartItemId)
  ELSE removeFromCartG(cart, cartItemId)

PreviewAnswer(cart) ==
  IF controller = "delivery" THEN cartBillingPreview(cart) ELSE cartBillingPreviewG(cart)

CouponAnswer(u, couponCode) == applyCouponToCart(carts[u], coupons, couponCode, u)

\* the cart a request persists, if it persists one
Outcome(result) == IF result.saved THEN {result.cart} ELSE {}

\* the carts the successful mutating operations can persist for user u
MutatedCarts(u) ==
  UNION ({Outcome(AddAnswer(u, p, q, cs)) :
            p \in ProductIds, q \in AddQuantities, cs \in CourierServices}
         \cup {Outcome(UpdateAnswer(carts[u], k, q)) :
                 k \in DOMAIN carts[u].items, q \in SetQuantities}
         \cup {Outcome(RemoveAnswer(carts[u], k)) : k \in DOMAIN carts[u].items}
         \cup {Outcome(CouponAnswer(u, c)) : c \in CouponCodes}
         \cup {Outcome(removeCouponFromCart(carts[u]))}
         \cup (IF controller = "grocery"
               THEN {Outcome(applyComboToCartG(carts[u], c, q)) :
                       c \in ComboIds, q \in SetQuantities}
                    \cup {Outcome(removeComboFromCartG(carts[u], c)) : c \in ComboIds}
               ELSE {}))

\* the cart equals what the controller's recalculateCart makes of it, with
\* the products populated or not
IsRecalculated(cart) ==
  IF controller = "delivery"
  THEN cart = recalculateCart(cart, FALSE) \/ cart = recalculateCart(cart, TRUE)
  ELSE cart = recalculateCartG(cart)

\* C11: every cart a successful mutating operation (addToCart,
\* updateCartItem, removeFromCart, applyCouponToCart, removeCouponFromCart,
\* applyComboToCart, removeComboFromCart) persists has the aggregate fields
\* recalculateCart computes from its items and applied offers.
C11_MutationsPersistRecalculatedTotals ==
  \A u \in Users : \A cart \in MutatedCarts(u) : IsRecalculated(cart)

\* the totals C12 names
WrittenTotals(cart) ==
  <<cart.restaurantCharges, cart.couponDiscount, cart.subtotal, cart.finalTotal>>

\* the operations that write totals and leave the items and offers of a
\* non-empty cart as they are: getCart, updateCartItem with the quantity the
\* line already has, cartBillingPreview, the recalculation of createOrder
TotalsWriters(cart) ==
  (IF controller = "delivery" THEN {getCart(cart).cart, recalculateCartAtCheckout(cart)}
   ELSE {})
  \cup {UpdateAnswer(cart, k, cart.items[k].quantity).cart : k \in DOMAIN cart.items}
  \cup {PreviewAnswer(cart).cart}

\* C12: for a cart whose items and offers do not change, every operation
\* that recomputes or writes totals leaves the same restaurantCharges,
\* couponDiscount, subtotal and finalTotal.
C12_TotalsAreAFunctionOfItemsAndOffers ==
  \A u \in Users :
    \A c1, c2 \in TotalsWriters(carts[u]) : WrittenTotals(c1) = WrittenTotals(c2)

\* C13: in every persisted cart state, finalTotal >= 0.
C13_FinalTotalNeverNegative ==
  \A u \in Users : carts[u].finalTotal >= 0

\* C14: in every persisted cart state, totalDiscountedPrice <= totalPrice.
C14_DiscountedTotalAtMostTotal ==
  \A u \in Users : carts[u].totalDiscountedPrice <= carts[u].totalPrice

\* the aggregate fields and applied offers C15 names
AggregateState(cart) ==
  <<cart.totalItems, cart.totalPrice, cart.totalDiscountedPrice, cart.totalSavings,
    cart.restaurantCharges, cart.deliveryCharge, cart.couponDiscount, cart.comboDiscount,
    cart.gst, cart.subtotal, cart.finalTotal, cart.appliedCoupon, cart.appliedCombos>>

\* the product is not a line of the cart
IsNewLine(cart, productId) ==
  \A k \in DOMAIN cart.items : cart.items[k].product # productId

\* addToCart of a new line for user u, then removeFromCart of that line
AddThenRemove(u, productId, quantity, courierService) ==
  LET added == AddAnswer(u, productId, quantity, courierService) IN
  RemoveAnswer(added.cart, Len(added.cart.items))

\* C15: from any cart state, adding a new line with quantity 3 and then
\* removing that line returns every aggregate field and the applied offers
\* to their values before the add.
C15_AddThenRemoveRestoresAggregates ==
  \A u \in Users : \A p \in ProductIds : \A cs \in CourierServices :
    (IsNewLine(carts[u], p) /\ AddAnswer(u, p, 3, cs).saved)
      => LET removed == AddThenRemove(u, p, 3, cs) IN
         removed.saved /\ AggregateState(removed.cart) = AggregateState(carts[u])

\* how many times user u has applied coupon c successfully
TimesApplied(c, u) ==
  Cardinality({k \in DOMAIN coupons[c].usedBy : coupons[c].usedBy[k].userId = u})

\* C16: no user has applied a coupon more than its perUserLimit times, and
\* no coupon has been applied more than its maxUsageLimit times in total.
C16_CouponLimitsAreKept ==
  \A c \in Coupons :
    /\ CouponTerms[c].perUserLimit # 0
         => \A u \in Users : TimesApplied(c, u) <= CouponTerms[c].perUserLimit
    /\ CouponTerms[c].maxUsageLimit # 0
         => coupons[c].usageCount <= CouponTerms[c].maxUsageLimit

\* C17: applyCouponToCart on a cart that has an applied coupon fails and
\* changes neither the cart (its applied coupon included) nor any coupon's
\* usageCount or usedBy.
C17_SecondCouponIsRejected ==
  \A u \in Users : \A c \in CouponCodes :
    carts[u].appliedCoupon.couponId # NoCoupon
      => LET answer == CouponAnswer(u, c) IN
         /\ ~answer.saved
         /\ answer.code >= 400
         /\ answer.cart = carts[u]
         /\ answer.coupons = coupons

\* a cart with an applied coupon whose user asks for a coupon that would be
\* applied had the cart none; the request is refused for that reason
C17_Witness ==
  \E u \in Users : \E c \in Coupons :
    /\ carts[u].appliedCoupon.couponId # NoCoupon
    /\ applyCouponToCart(removeCouponFromCart(carts[u]).cart, coupons, c, u).saved
    /\ CouponAnswer(u, c).msg = "A coupon is already applied. Remove it first."
    /\ CouponAnswer(u, c).coupons = coupons

\* every condition of applyCouponToCart but the minimum order value holds
\* for user u and coupon c, and no coupon is applied
OtherConditionsHold(u, c) ==
  /\ Len(carts[u].items) > 0
  /\ CouponTerms[c].isActive /\ CouponTerms[c].inPeriod
  /\ CouponTerms[c].maxUsageLimit # 0 => coupons[c].usageCount < CouponTerms[c].maxUsageLimit
  /\ LET used == userUsage(coupons[c].usedBy, u) IN
     used = 0 \/ coupons[c].usedBy[used].usedCount < Or(CouponTerms[c].perUserLimit, 1)
  /\ carts[u].appliedCoupon.couponId = NoCoupon

\* the answer of applyCouponToCart is a failure that changes nothing
FailsUnchanged(u, answer) ==
  /\ ~answer.saved
  /\ answer.code >= 400
  /\ answer.cart = carts[u]
  /\ answer.coupons = coupons

\* the answer of applyCouponToCart is a success that applies coupon c
Applies(c, answer) ==
  /\ answer.saved
  /\ answer.code = 200
  /\ answer.cart.appliedCoupon.couponId = c

\* C18 as stated: with the other conditions satisfied, applyCouponToCart
\* fails and changes nothing when the cart's subtotal is below the coupon's
\* minOrderValue, and succeeds when it is equal or above.
C18_GateOnCartSubtotal ==
  \A u \in Users : \A c \in Coupons :
    OtherConditionsHold(u, c)
      => IF carts[u].subtotal < CouponTerms[c].minOrderValue
         THEN FailsUnchanged(u, CouponAnswer(u, c))
         ELSE Applies(c, CouponAnswer(u, c))

\* C18 amended: the gate compares cart.totalPrice, the sum of price x
\* quantity before any discount, charge or tax, with minOrderValue: below it
\* the request fails and changes nothing, at or above it the request succeeds.
C18_GateOnTotalPrice ==
  \A u \in Users : \A c \in Coupons :
    OtherConditionsHold(u, c)
      => IF carts[u].totalPrice < CouponTerms[c].minOrderValue
         THEN FailsUnchanged(u, CouponAnswer(u, c))
         ELSE Applies(c, CouponAnswer(u, c))

\* a cart whose totalPrice is exactly the minimum while its subtotal is
\* below it, and the coupon applies; and a cart below the minimum
C18_Witness ==
  \E u \in Users : \E c \in Coupons :
    /\ OtherConditionsHold(u, c)
    /\ carts[u].totalPrice = CouponTerms[c].minOrderValue
    /\ carts[u].subtotal < CouponTerms[c].minOrderValue
    /\ Applies(c, CouponAnswer(u, c))

\* C19: every line of every persisted cart has totalPrice = price x quantity
\* and totalDiscountedPrice = (discountedPrice if present, else price) x
\* quantity.
C19_LineTotals ==
  \A u \in Users : \A k \in DOMAIN carts[u].items :
    LET line == carts[u].items[k] IN
    /\ line.totalPrice = line.price * line.quantity
    /\ line.totalDiscountedPrice =
         (IF line.discountedPrice # Null THEN line.discountedPrice ELSE line.price)
           * line.quantity

\* C20: addToCart answers every request with a quantity of zero or less
\* with a validation error and persists nothing, whether or not the product
\* is a line of the cart.
C20_NonPositiveQuantityRejected ==
  \A u \in Users : \A p \in ProductIds : \A q \in AddQuantities : \A cs \in CourierServices :
    q <= 0 => LET answer == AddAnswer(u, p, q, cs) IN
              ~answer.saved /\ answer.code >= 400 /\ answer.cart = carts[u]

(***************************************************************************)
(* Further properties of the order state machine.                          *)
(***************************************************************************)
\* the timeline field named after an aggregate status
TimelineOf(tl, status) ==
  CASE status = "confirmed" -> tl.orderConfirmed
    [] status = "processing" -> tl.processingStarted
    [] status = "shipped" -> tl.orderShipped
    [] status = "delivered" -> tl.orderDelivered
    [] status = "cancelled" -> tl.orderCancelled
    [] status = "returned" -> tl.orderReturned
    [] OTHER -> tl.orderCreated

TimelineStatuses ==
  {"confirmed", "processing", "shipped", "delivered", "cancelled", "returned"}

\* C23: the step that brings orderStatus.current into a state stamps the
\* timeline field of that state unless it is stamped already, and no step
\* overwrites a stamped timeline field.
C23_TimelineStampedOnEntry ==
  [][/\ (order'.orderStatus.current # order.orderStatus.current
         /\ order'.orderStatus.current \in TimelineStatuses)
          => TimelineOf(order'.timeline, order'.orderStatus.current) # NoTime
     /\ \A status \in TimelineStatuses :
          TimelineOf(order.timeline, status) # NoTime
            => TimelineOf(order'.timeline, status) = TimelineOf(order.timeline, status)]_vars

\* the refund requests: req.body.amount and whether the gateway refunds
RefundRequests == [amount : Amounts, refunded : BOOLEAN]

RefundAnswer(o, req) == processRefund(o, req.amount, req.refunded, now + 1)

\* the amount processRefund asks the gateway for
RefundAmount(req) == IF req.amount # 0 THEN req.amount ELSE order.finalTotal

\* one of the guards of processRefund refuses the request
RefundGuardFails(req) ==
  \/ order.paymentInfo.method = "cod"
  \/ order.paymentInfo.status # "completed"
  \/ ~order.paymentInfo.stripePaymentIntentId
  \/ RefundAmount(req) <= 0
  \/ RefundAmount(req) > order.finalTotal

LastEntry(o) == o.orderStatus.history[Len(o.orderStatus.history)]

RefundProcessed(o) ==
  \E k \in DOMAIN o.orderStatus.history :
    o.orderStatus.history[k].notes \in
      {"Refund processed: Order Cancelled", "Refund processed for returned item"}

\* the webhook events the gateway can deliver now
Deliverable ==
  {type \in WebhookEvents :
     /\ type = "payment_intent.succeeded" => stripe.succeeded
     /\ type = "payment_intent.payment_failed" => stripe.failed}

\* C26: once processRefund has refunded an order, no processRefund succeeds
\* for it again, whether it comes at once or after a webhook event the
\* gateway delivers (again).
C26_RefundedAtMostOnce ==
  RefundProcessed(order) =>
    \A req \in RefundRequests :
      /\ ~RefundAnswer(order, req).saved
      /\ \A type \in Deliverable :
           ~RefundAnswer(handleStripeWebhook(order, type, now + 1).order, req).saved

\* C27: once paymentInfo.status is 'completed' or 'refunded', no step
\* changes it to 'failed' or 'pending'.
C27_SettledPaymentStaysSettled ==
  [][order.paymentInfo.status \in {"completed", "refunded"}
       => order'.paymentInfo.status \notin {"failed", "pending"}]_vars

\* C28: once orderStatus.current is 'cancelled' or 'returned', no step
\* changes it to pending, confirmed, processing, shipped or delivered.
C28_ClosedOrderStaysClosed ==
  [][order.orderStatus.current \in {"cancelled", "returned"}
       => order'.orderStatus.current \in {"cancelled", "returned"}]_vars

\* the request reaches item i, which is at the target status already
AtTarget(req, i) ==
  /\ Reaches(req, i)
  /\ Target(req) # -1
  /\ Target(req) = Position(StatusOf(order, i))

\* C30: an updateOrderStatus request whose target is the forward status an
\* item already has appends nothing to the item's statusHistory, leaves its
\* deliveredAt, and does not count the item as updated: a request that
\* reaches only such items updates nothing.
C30_SameStatusIsIdempotent ==
  \A req \in Requests : \A i \in Items :
    AtTarget(req, i) =>
      LET answer == Answer(req) IN
      /\ answer.order.items[i].statusHistory = order.items[i].statusHistory
      /\ answer.order.items[i].deliveredAt = order.items[i].deliveredAt
      /\ (\A j \in Items : Reaches(req, j) => AtTarget(req, j)) => ~answer.saved

(***************************************************************************)
(* Properties of createOrder on the cart, and of the combo routes.         *)
(***************************************************************************)
\* the createOrder requests
CheckoutRequests == [address : Addresses, paymentMethod : CheckoutMethods]

CheckoutAnswer(u, req) == createOrderCart(carts[u], req.address, req.paymentMethod)

\* every aggregate field of the cart is zero
AggregatesZero(cart) ==
  /\ cart.totalItems = 0 /\ cart.totalPrice = 0 /\ cart.totalDiscountedPrice = 0
  /\ cart.totalSavings = 0 /\ cart.restaurantCharges = 0 /\ cart.couponDiscount = 0
  /\ cart.subtotal = 0 /\ cart.finalTotal = 0

\* C21: a createOrder that succeeds leaves the user's cart without items,
\* applied coupon and combos, and with every aggregate field at zero.
C21_OrderEmptiesCart ==
  \A u \in Users : \A req \in CheckoutRequests :
    LET answer == CheckoutAnswer(u, req) IN
    answer.created =>
      /\ answer.cart.items = <<>>
      /\ answer.cart.appliedCoupon = NoAppliedCoupon
      /\ answer.cart.appliedCombos = <<>>
      /\ AggregatesZero(answer.cart)

\* C22: a createOrder that fails a precondition (empty cart, no resolvable
\* selected address, invalid paymentMethod) creates no order and leaves the
\* persisted cart exactly as it was.
C22_FailedOrderLeavesCart ==
  \A u \in Users : \A req \in CheckoutRequests :
    (Len(carts[u].items) = 0 \/ req.address # "resolved"
       \/ req.paymentMethod \notin {"cod", "card", "upi", "netbanking"})
      => LET answer == CheckoutAnswer(u, req) IN
         /\ ~answer.created
         /\ answer.code >= 400
         /\ answer.cart = carts[u]

\* the combo is among the cart's appliedCombos
ComboApplied(cart, comboId) ==
  \E k \in DOMAIN cart.appliedCombos : cart.appliedCombos[k].comboId = comboId

\* C25: applyComboToCart for a combo that is among the cart's appliedCombos
\* is rejected and leaves the cart's lines and appliedCombos unchanged.
C25_ReapplyingComboIsRejected ==
  controller = "grocery" =>
    \A u \in Users : \A comboId \in ComboIds : \A quantity \in SetQuantities :
      (ComboApplied(carts[u], comboId) /\ quantity >= 1)
        => LET answer == applyComboToCartG(carts[u], comboId, quantity) IN
           /\ ~answer.saved
           /\ answer.code >= 400
           /\ answer.cart.items = carts[u].items
           /\ answer.cart.appliedCombos = carts[u].appliedCombos

(***************************************************************************)
(* Properties of the sold counters.                                        *)
(***************************************************************************)
\* C29: for each order, every ordered product's sold counter is incremented
\* by the item quantity at most once, also when verifyPayment and the
\* succeeded webhook of the order overlap (each reads paymentInfo.status
\* before the other saves) and when the succeeded event is delivered again
C29_SoldCountedAtMostOnce == sold <= 1

====
